---- MODULE Spec2Model ----
(***************************************************************************)
(* Journey animation and camera orchestration of the store journey map     *)
(* (src/src/animator.js, driven by src/src/main.js, pins created by        *)
(* src/src/scene.js).                                                      *)
(*                                                                         *)
(* Numbers are fixed point:                                                *)
(*   lengths   in 1/Scale distance units (37.5 is 75 at Scale = 2),        *)
(*   progress  in 1/ProgressOne (progress 1 is ProgressOne),               *)
(*   angles    in 1/AngPi of pi (Math.PI is AngPi),                        *)
(* products with a fractional factor are truncated toward zero.            *)
(* Timers and tween-engine timelines advance by their own actions, in any  *)
(* order relative to the frame tick (wall-clock delays are abstracted to   *)
(* "pending until fired").                                                 *)
(***************************************************************************)
EXTENDS Integers, Sequences, FiniteSets, TLC

(***************************************************************************)
(* Resolutions and bounds                                                  *)
(***************************************************************************)
Scale == 2
ProgressOne == 20
AngPi == 40

\* number of samples of the linear phase of a journey timeline
JMid == 1
\* number of update steps of the 2.5 s move phase of an intro timeline
IntroSteps == 2
\* most intro timelines / journey-start timers / journey timelines alive at once
MaxIntros == 1
\* number of commands (calls of the exported functions other than resetJourney,
\* which brings the run back near its start) in one run
MaxCalls == 2

Abs(i) == IF i < 0 THEN -i ELSE i

\* (a * n) / d truncated toward zero, as a float product cut to the grid
MulDiv(a, n, d) == IF a * n >= 0 THEN (a * n) \div d ELSE -((-(a * n)) \div d)

Min2(a, b) == IF a <= b THEN a ELSE b
Max2(a, b) == IF a >= b THEN a ELSE b

(***************************************************************************)
(* CAMERA_VIEWS and the literals of setCameraToZenith / playIntroTransition*)
(***************************************************************************)
ZenithPos == <<0, 90 * Scale, 0>>
ZenithLook == <<0, 0, 0>>
ZenithUp == <<0, 0, -1>>
WorldUp == <<0, 1, 0>>
IsoOffsetY == 75
IsoOffsetZ == 30 * Scale
IsoOffsetStale == <<0, 120 * Scale, 15 * Scale>>
IsoOffset == <<0, IsoOffsetY, IsoOffsetZ>>
ZenithOffset == <<0, 120 * Scale, 15 * Scale>>

\* the state literal of the module (animator.js 8-38)
InitialOffset == <<0, IsoOffsetY, IsoOffsetZ>>
InitialTarget == <<0, 0, 0>>

ZenithCamera == [pos |-> ZenithPos, look |-> ZenithLook, lookUp |-> ZenithUp, up |-> WorldUp]
\* main.js 57-58: camera before the scene is initialised
BootCamera == [pos |-> <<0, 80 * Scale, 0>>, look |-> <<0, 0, 0>>, lookUp |-> WorldUp, up |-> WorldUp]

(***************************************************************************)
(* Path curves: getPointAt / getTangentAt / getLength of the active curve. *)
(* Two registered paths of different lengths, straight runs on the floor   *)
(* plane.                                                                  *)
(***************************************************************************)
PathIds == {1, 2}
UnknownPath == 0
DefaultPath == 1

\* first and last waypoint, in 1/Scale units
PathStart(c) == IF c = 1 THEN <<0, 0>> ELSE <<0, 8>>
PathEnd(c) == IF c = 1 THEN <<18, 0>> ELSE <<0, 28>>

\* pathCurve.getPointAt(u): arc-length fraction u in 0..ProgressOne
GetPointAt(c, u) ==
  <<PathStart(c)[1] + ((PathEnd(c)[1] - PathStart(c)[1]) * u) \div ProgressOne,
    PathStart(c)[2] + ((PathEnd(c)[2] - PathStart(c)[2]) * u) \div ProgressOne>>

\* Math.atan2(tangent.x, tangent.z) of pathCurve.getTangentAt(u)
TangentAngle(c, u) == IF c = 1 THEN AngPi \div 2 ELSE 0

(***************************************************************************)
(* Pins (scene.js pinsData): label, position, hidden, revealAfter,         *)
(* revealAfterDelay.  A scene is one pinsData list.                        *)
(***************************************************************************)
NoLabel == "none"
Pins == {1, 2, 3}

\* x and z in 1/Scale units
PinDef(l, x, z, h, ra, rd) ==
  [label |-> l, x |-> x, z |-> z, hidden |-> h, revealAfter |-> ra, revealAfterDelay |-> rd]

SceneDefs ==
  << \* reveal chain A -> B -> C
     <<PinDef("A", 9, 14, FALSE, NoLabel, 0),
       PinDef("B", 18, 13, TRUE, "A", 0),
       PinDef("C", 0, -13, TRUE, "B", 0)>>,
     \* one delay reveal, one chained reveal
     <<PinDef("A", 9, 14, FALSE, NoLabel, 0),
       PinDef("B", 18, 13, TRUE, NoLabel, 2000),
       PinDef("C", 0, -13, TRUE, "A", 0)>>,
     \* reveal attributes on pins that are created visible
     <<PinDef("A", 9, 14, FALSE, NoLabel, 0),
       PinDef("B", 18, 13, FALSE, "A", 0),
       PinDef("C", 0, -13, FALSE, NoLabel, 2000)>>,
     \* a heart pin (created without a label, scene.js 1380-1385) next to a
     \* delay reveal and a chained reveal
     <<PinDef(NoLabel, 9, 14, FALSE, NoLabel, 0),
       PinDef("B", 18, 13, TRUE, NoLabel, 2000),
       PinDef("C", 0, -13, TRUE, "B", 0)>> >>

\* the scene whose first pin is a heart pin
HeartScene == 4

\* the scenes made of labelled pins only
Scenes == (1..Len(SceneDefs)) \ {HeartScene}

VARIABLES
  inited,               \* initAnimator has merged the scene handles into animatorState
  scene,                \* which pinsData the scene was created from
  pathCurve,            \* animatorState.pathCurve (id of the active curve)
  progress,             \* animatorState.progress
  isPlaying,
  introComplete,
  followingMarker,
  compassMode,
  currentMarkerAngle,
  worldRotation,
  targetWorldRotation,
  cameraTarget,
  cameraOffset,
  camera,               \* camera.position, last lookAt target, up used by it, camera.up
  shopper,              \* shopper.position (x,z) and shopper.rotation.y
  uniforms,             \* pathMesh.material.uniforms: uProgress, uVisible, uDrawProgress
  ribbon,               \* pathMesh.geometry: id of the curve the ribbon was built from
  pathVisible,
  pathDrawTimeline,     \* "null" or "live": reference held in animatorState
  draws,                \* draw tweens the tween engine is running
  timeline,             \* animatorState.timeline: "null", "live" (last of journeys) or "done"
  journeys,             \* journey timelines the tween engine holds (running or paused)
  intros,               \* intro timelines the tween engine is running
  startTimers,          \* pending 500 ms journey-start timers
  isHidden,             \* pin.userData.isHidden
  isDone,               \* pin.userData.isDone
  pinDoneTimers,        \* animatorState.pinDoneTimers: key -> "none" | "live" | "fired"
  pendingTimers,        \* pending setTimeout callbacks per key
  lastOp,               \* the operation that produced the state (see Noted)
  calls,                \* number of commands issued so far
  calc                  \* input and result of playJourney's timeline arithmetic

animVars == <<progress, isPlaying, introComplete, followingMarker, compassMode>>
rotVars == <<currentMarkerAngle, worldRotation, targetWorldRotation>>
camVars == <<cameraTarget, cameraOffset, camera>>
pathVars == <<uniforms, ribbon, pathVisible, pathDrawTimeline, draws>>
tlVars == <<timeline, journeys, intros, startTimers>>
pinVars == <<isHidden, isDone, pinDoneTimers, pendingTimers>>

vars == <<inited, scene, pathCurve, progress, isPlaying, introComplete, followingMarker,
          compassMode, currentMarkerAngle, worldRotation, targetWorldRotation,
          cameraTarget, cameraOffset, camera, shopper, uniforms, ribbon, pathVisible,
          pathDrawTimeline, draws, timeline, journeys, intros, startTimers,
          isHidden, isDone, pinDoneTimers, pendingTimers, lastOp, calls, calc>>

Pin(p) == SceneDefs[scene][p]

\* the operations lastOp tells apart; every other operation is noted as "other"
NotedOps == {"initAnimator", "updateAnimator", "playJourney", "pinDoneTimer",
             "pinDelayTimer", "resetJourney", "resetJourneyAgain", "switchPath",
             "switchPathUnknown"}
Noted(name) == IF name \in NotedOps THEN name ELSE "other"

\* a command of the exported command surface (a key press, a UI event, an API call)
Command(name) ==
  calls < MaxCalls /\ calls' = calls + 1 /\ lastOp' = Noted(name) /\ UNCHANGED calc
\* a frame, a timer callback, a step of the tween engine, or a reset
Step(name) == lastOp' = Noted(name) /\ UNCHANGED <<calls, calc>>

\* lastOp after a reset; a reset that directly follows a reset is told apart
ResetOps == {"resetJourney", "resetJourneyAgain"}
ResetName == IF lastOp \in ResetOps THEN "resetJourneyAgain" ELSE "resetJourney"

\* keys of animatorState.pinDoneTimers: the pin's label, or 'delay_' + label
DoneKey(p) == <<"done", p>>
DelayKey(p) == <<"delay", p>>
Keys == {DoneKey(p) : p \in Pins} \cup {DelayKey(p) : p \in Pins}

PinState(p) == IF isDone[p] THEN "Done" ELSE IF isHidden[p] THEN "Hidden" ELSE "Visible"

\* state of a pin as createStoreScene leaves it (scene.js 1271-1289)
CreatedState(p) == IF Pin(p).hidden THEN "Hidden" ELSE "Visible"

(***************************************************************************)
(* State after the module is loaded and the scene is created, before       *)
(* initAnimator runs (animator.js 8-38, scene.js 1271-1289, main.js 57).   *)
(***************************************************************************)
\* no timeline arithmetic under way
NoCalc == [stage |-> "none"]

Loaded ==
  /\ inited = FALSE
  /\ scene \in 1..Len(SceneDefs)
  /\ pathCurve = DefaultPath
  /\ progress = 0
  /\ isPlaying = FALSE
  /\ introComplete = FALSE
  /\ followingMarker = FALSE
  /\ compassMode = TRUE
  /\ currentMarkerAngle = 0
  /\ worldRotation = 0
  /\ targetWorldRotation = 0
  /\ cameraTarget = InitialTarget
  /\ cameraOffset = InitialOffset
  /\ camera = BootCamera
  /\ shopper = [pos |-> PathStart(DefaultPath), rot |-> AngPi \div 2]
  /\ uniforms = [uProgress |-> 0, uVisible |-> 0, uDrawProgress |-> 0]
  /\ ribbon = DefaultPath
  /\ pathVisible = FALSE
  /\ pathDrawTimeline = "null"
  /\ draws = <<>>
  /\ timeline = "null"
  /\ journeys = <<>>
  /\ intros = <<>>
  /\ startTimers = 0
  /\ isHidden = [p \in Pins |-> SceneDefs[scene][p].hidden]
  /\ isDone = [p \in Pins |-> FALSE]
  /\ pinDoneTimers = [k \in Keys |-> "none"]
  /\ pendingTimers = [k \in Keys |-> 0]
  /\ lastOp = "load"
  /\ calls = 0

Init == Loaded /\ scene \in Scenes /\ calc = NoCalc

(***************************************************************************)
(* Helpers of the frame update                                             *)
(***************************************************************************)
\* "while (delta > PI) delta -= 2 PI; while (delta < -PI) delta += 2 PI"
RECURSIVE NormalizeDelta(_)
NormalizeDelta(d) ==
  IF d > AngPi THEN NormalizeDelta(d - 2 * AngPi)
  ELSE IF d < -AngPi THEN NormalizeDelta(d + 2 * AngPi)
  ELSE d

TargetRotationNoTurn(north, angle) == IF ~north THEN -angle ELSE 0
\* targetWorldRotation chosen by the compass mode
TargetRotation(north, angle) == IF ~north THEN -angle + AngPi ELSE 0

ShortestDeltaRaw(target, world) == target - world
\* animator.js 136-140: the delta after normalization
ShortestDelta(target, world) == NormalizeDelta(target - world)

\* delta * rotationLerpFactor (0.027)
RotationStep(target, world) == MulDiv(ShortestDelta(target, world), 27, 1000)

(***************************************************************************)
(* The smoothing of one tick (animator.js 132-143) for any worldRotation   *)
(* and targetWorldRotation, in 1/AngPi of pi; the change of worldRotation  *)
(* is kept exact, in 1/1000 of that unit.                                  *)
(***************************************************************************)
\* largest rotation tried, in 1/AngPi of pi
MaxYaw == 120

\* delta * rotationLerpFactor, in 1/1000 of the angle unit
RotationChangeMilli(delta) == delta * 27

CompassInputs ==
  {[stage |-> "yaw", world |-> w, target |-> t] : w \in -MaxYaw..MaxYaw, t \in -MaxYaw..MaxYaw}

CompassTurn ==
  /\ calc.stage = "yaw"
  /\ LET delta == ShortestDelta(calc.target, calc.world)
     IN calc' = [stage |-> "turned", world |-> calc.world, target |-> calc.target,
                 delta |-> delta,
                 \* worldRotation += delta * rotationLerpFactor
                 changeMilli |-> RotationChangeMilli(delta)]
  /\ UNCHANGED <<inited, scene, pathCurve, animVars, rotVars, camVars, shopper, pathVars,
                 tlVars, pinVars, lastOp, calls>>

InitCompass == Loaded /\ scene = 1 /\ calc \in CompassInputs

SpecCompass == InitCompass /\ [][CompassTurn]_vars

\* sine and cosine, in 1/1000, of the world rotations the smoothing reaches
\* (multiples of pi/AngPi); larger angles use the last entry
SinTable == <<0, 78, 156, 233, 309, 383>>
CosTable == <<1000, 997, 988, 972, 951, 924>>
SinMilli(a) == IF a < 0 THEN -SinTable[Min2(-a, 5) + 1] ELSE SinTable[Min2(a, 5) + 1]
CosMilli(a) == CosTable[Min2(Abs(a), 5) + 1]

\* shopper.getWorldPosition: the marker is a child of worldGroup, which is
\* rotated about the vertical axis by worldGroup.rotation.y
WorldPos(pos, rot) ==
  <<MulDiv(pos[1] * CosMilli(rot) + pos[2] * SinMilli(rot), 1, 1000),
    MulDiv(pos[2] * CosMilli(rot) - pos[1] * SinMilli(rot), 1, 1000)>>

Lerp3Snap(v, goal) == goal
\* Vector3.lerp(goal, 0.05)
Lerp3(v, goal) ==
  <<v[1] + MulDiv(goal[1] - v[1], 5, 100),
    v[2] + MulDiv(goal[2] - v[2], 5, 100),
    v[3] + MulDiv(goal[3] - v[3], 5, 100)>>

BeyondThreshold(p, pos) ==
  (pos[1] - Pin(p).x) * (pos[1] - Pin(p).x) + (pos[2] - Pin(p).z) * (pos[2] - Pin(p).z)
    >= (7 * Scale) * (7 * Scale)

\* planar distance of a pin to the agent is at most 7 units
WithinThreshold(p, pos) ==
  (pos[1] - Pin(p).x) * (pos[1] - Pin(p).x) + (pos[2] - Pin(p).z) * (pos[2] - Pin(p).z)
    <= (7 * Scale) * (7 * Scale)

ShouldScheduleAgain(p, pos) ==
  /\ ~isDone[p]
  /\ ~isHidden[p]
  /\ WithinThreshold(p, pos)

ShouldScheduleHidden(p, pos) ==
  /\ ~isDone[p]
  /\ WithinThreshold(p, pos)
  /\ pinDoneTimers[DoneKey(p)] = "none"

\* animator.js 196 and 205: the pin gets a debounce timer on this tick
ShouldSchedule(p, pos) ==
  /\ ~isDone[p]
  /\ ~isHidden[p]
  /\ WithinThreshold(p, pos)
  /\ pinDoneTimers[DoneKey(p)] = "none"

HeadingLiveAlways(u) == TRUE
\* "progress < 0.995"
HeadingLive(u) == u * 1000 < 995 * ProgressOne

(***************************************************************************)
(* setCameraToZenith (animator.js 371-391), as called by other operations  *)
(***************************************************************************)
ZenithFollowingKept == followingMarker
\* animator.js 387: followingMarker = false
ZenithFollowing == FALSE

ZenithEffect ==
  IF inited
  THEN /\ camera' = ZenithCamera
       /\ cameraOffset' = ZenithOffset
       /\ cameraTarget' = <<0, 0, 0>>
       /\ followingMarker' = ZenithFollowing
       /\ introComplete' = FALSE
  ELSE UNCHANGED <<camera, cameraOffset, cameraTarget, followingMarker, introComplete>>

\* exported setCameraToZenith
SetCameraToZenith ==
  /\ ZenithEffect
  /\ Command("setCameraToZenith")
  /\ UNCHANGED <<inited, scene, pathCurve, progress, isPlaying, compassMode, rotVars,
                 shopper, pathVars, tlVars, pinVars>>

(***************************************************************************)
(* main.js 179-205: initAnimator(config) followed by setCameraToZenith().  *)
(* initAnimator (animator.js 59-99) merges the handles, points the camera  *)
(* target at the path start and schedules the delay reveals.               *)
(***************************************************************************)
HasDelayRevealTypo(p) == Pin(p).revealAfter # NoLabel /\ isHidden[p]
\* animator.js 74: the pin gets a delay timer
HasDelayReveal(p) == Pin(p).revealAfterDelay > 0 /\ isHidden[p]

InitAnimator ==
  /\ ~inited
  /\ inited' = TRUE
  /\ pendingTimers' = [k \in Keys |->
       IF \E p \in Pins : k = DelayKey(p) /\ HasDelayReveal(p)
       THEN pendingTimers[k] + 1 ELSE pendingTimers[k]]
  /\ pinDoneTimers' = [k \in Keys |->
       IF \E p \in Pins : k = DelayKey(p) /\ HasDelayReveal(p)
       THEN "live" ELSE pinDoneTimers[k]]
  \* cameraTarget.set(startPoint) is overwritten by the setCameraToZenith that follows
  /\ camera' = ZenithCamera
  /\ cameraOffset' = ZenithOffset
  /\ cameraTarget' = <<0, 0, 0>>
  /\ followingMarker' = FALSE
  /\ introComplete' = FALSE
  /\ Step("initAnimator")
  /\ UNCHANGED <<scene, pathCurve, progress, isPlaying, compassMode, rotVars, shopper,
                 pathVars, tlVars, isHidden, isDone>>

(***************************************************************************)
(* updateAnimator (animator.js 104-257), once per rendered frame           *)
(***************************************************************************)
UpdateAnimator ==
  /\ Step("updateAnimator")
  /\ IF ~inited
     THEN UNCHANGED <<inited, scene, pathCurve, animVars, rotVars, camVars, shopper,
                      pathVars, tlVars, pinVars>>
     ELSE LET point == GetPointAt(pathCurve, progress)
              angle == IF HeadingLive(progress) THEN TangentAngle(pathCurve, progress)
                       ELSE currentMarkerAngle
              target == TargetRotation(compassMode, angle)
              world == worldRotation + RotationStep(target, worldRotation)
              marker == WorldPos(point, world)
              ct == Lerp3(cameraTarget, <<marker[1], 0, marker[2]>>)
          IN /\ shopper' = [pos |-> point,
                            rot |-> IF HeadingLive(progress) THEN angle ELSE shopper.rot]
             /\ currentMarkerAngle' = angle
             /\ targetWorldRotation' = target
             /\ worldRotation' = world
             /\ uniforms' = [uniforms EXCEPT !.uProgress = progress]
             /\ IF followingMarker
                THEN /\ cameraTarget' = ct
                     /\ camera' = [camera EXCEPT
                          !.pos = <<ct[1] + cameraOffset[1], cameraOffset[2], ct[3] + cameraOffset[3]>>,
                          !.look = ct,
                          !.lookUp = camera.up]
                ELSE UNCHANGED <<cameraTarget, camera>>
             /\ pinDoneTimers' = [k \in Keys |->
                  IF \E p \in Pins : k = DoneKey(p) /\ ShouldSchedule(p, point)
                  THEN "live" ELSE pinDoneTimers[k]]
             /\ pendingTimers' = [k \in Keys |->
                  IF \E p \in Pins : k = DoneKey(p) /\ ShouldSchedule(p, point)
                  THEN pendingTimers[k] + 1 ELSE pendingTimers[k]]
             /\ UNCHANGED <<inited, scene, pathCurve, animVars, cameraOffset, ribbon,
                            pathVisible, pathDrawTimeline, draws, tlVars, isHidden, isDone>>

(***************************************************************************)
(* Sequence helpers for the timelines held by the tween engine             *)
(***************************************************************************)
RemoveAt(sq, i) == [j \in 1..(Len(sq) - 1) |-> IF j < i THEN sq[j] ELSE sq[j + 1]]
ButLast(sq) == RemoveAt(sq, Len(sq))

(***************************************************************************)
(* Journey progress timeline (animator.js 417-469)                         *)
(***************************************************************************)
\* pathCurve.getLength(), in 1/Scale units
GetLength(c) == Abs(PathEnd(c)[1] - PathStart(c)[1]) + Abs(PathEnd(c)[2] - PathStart(c)[2])
\* pathLength / baseSpeed (2.5 units per second), in milliseconds, of a path
\* of len 1/Scale units
TotalDurationOf(len) == (len * 1000 * 10) \div (25 * Scale)
EaseDurationCapOnly(total) == 1500
\* Math.min(1.5, totalDuration * 0.05), in milliseconds
EaseDurationOf(total) == Min2(1500, (total * 5) \div 100)
\* totalDuration - (easeDuration * 2), the duration of the linear phase
LinearDurationOf(total) == total - EaseDurationOf(total) * 2
\* easeDuration / totalDuration and 1 - (easeDuration / totalDuration), with
\* progress 1 written as one
EaseOutEndOf(total, one) == (EaseDurationOf(total) * one) \div total
EaseInStartOf(total, one) == one - EaseOutEndOf(total, one)

TotalDuration(c) == TotalDurationOf(GetLength(c))
EaseDuration(c) == EaseDurationOf(TotalDuration(c))
EaseOutEnd(c) == EaseOutEndOf(TotalDuration(c), ProgressOne)
EaseInStart(c) == EaseInStartOf(TotalDuration(c), ProgressOne)

\* playhead positions of a journey timeline: 0 nothing rendered yet, 1 end of
\* the ease-out phase, 2..JMid+1 samples of the linear phase, JMid+2 end of
\* the linear phase, JEnd end of the ease-in phase
JEnd == JMid + 3

JourneyValueNoEaseIn(c, t) ==
  IF t = 1 THEN EaseOutEnd(c)
  ELSE IF t = JEnd THEN EaseInStart(c)
  ELSE EaseOutEnd(c) + ((EaseInStart(c) - EaseOutEnd(c)) * (t - 1)) \div (JMid + 1)

\* value the timeline writes to progress at playhead position t >= 1
JourneyValue(c, t) ==
  IF t = 1 THEN EaseOutEnd(c)
  ELSE IF t = JEnd THEN ProgressOne
  ELSE EaseOutEnd(c) + ((EaseInStart(c) - EaseOutEnd(c)) * (t - 1)) \div (JMid + 1)

KillTimelineSkipped == journeys
\* timeline.kill() of the timeline animatorState holds
KillTimeline == IF timeline = "live" THEN ButLast(journeys) ELSE journeys

\* playJourney, as called by the exported function and by the 500 ms timer
PlayJourneyEffect ==
  IF ~inited
  THEN UNCHANGED <<timeline, journeys, isPlaying>>
  ELSE /\ journeys' = Append(KillTimeline, [time |-> 0, paused |-> FALSE, curve |-> pathCurve])
       /\ timeline' = "live"
       /\ isPlaying' = TRUE

PlayJourney ==
  /\ PlayJourneyEffect
  /\ Command("playJourney")
  /\ UNCHANGED <<inited, scene, pathCurve, progress, introComplete, followingMarker,
                 compassMode, rotVars, camVars, shopper, pathVars, intros, startTimers, pinVars>>

\* the tween engine advances journey timeline i by one step
JourneyStep(i) ==
  /\ i \in 1..Len(journeys)
  /\ ~journeys[i].paused
  /\ LET t == journeys[i].time + 1
     IN /\ progress' = JourneyValue(journeys[i].curve, t)
        /\ IF t = JEnd
           THEN /\ journeys' = RemoveAt(journeys, i)
                /\ isPlaying' = FALSE
                /\ timeline' = IF timeline = "live" /\ i = Len(journeys) THEN "done" ELSE timeline
           ELSE /\ journeys' = [journeys EXCEPT ![i].time = t]
                /\ UNCHANGED <<isPlaying, timeline>>
  /\ Step("journeyStep")
  /\ UNCHANGED <<inited, scene, pathCurve, introComplete, followingMarker, compassMode,
                 rotVars, camVars, shopper, pathVars, intros, startTimers, pinVars>>

PauseJourney ==
  /\ journeys' = IF timeline = "live"
                 THEN [journeys EXCEPT ![Len(journeys)].paused = TRUE] ELSE journeys
  /\ isPlaying' = FALSE
  /\ Command("pauseJourney")
  /\ UNCHANGED <<inited, scene, pathCurve, progress, introComplete, followingMarker,
                 compassMode, rotVars, camVars, shopper, pathVars, timeline, intros,
                 startTimers, pinVars>>

ResumeJourneyRestart ==
  /\ journeys' = IF timeline = "live"
                 THEN [journeys EXCEPT ![Len(journeys)].paused = FALSE,
                                       ![Len(journeys)].time = 0] ELSE journeys
  /\ isPlaying' = TRUE
  /\ Command("resumeJourney")
  /\ UNCHANGED <<inited, scene, pathCurve, progress, introComplete, followingMarker,
                 compassMode, rotVars, camVars, shopper, pathVars, timeline, intros,
                 startTimers, pinVars>>
\* resumeJourney (animator.js 485-491)
ResumeJourney ==
  /\ journeys' = IF timeline = "live"
                 THEN [journeys EXCEPT ![Len(journeys)].paused = FALSE] ELSE journeys
  /\ isPlaying' = TRUE
  /\ Command("resumeJourney")
  /\ UNCHANGED <<inited, scene, pathCurve, progress, introComplete, followingMarker,
                 compassMode, rotVars, camVars, shopper, pathVars, timeline, intros,
                 startTimers, pinVars>>

\* the 500 ms timer set when a full sequence's intro completes (animator.js 406-408)
JourneyStartTimer ==
  /\ startTimers > 0
  /\ startTimers' = startTimers - 1
  /\ PlayJourneyEffect
  /\ Step("journeyStartTimer")
  /\ UNCHANGED <<inited, scene, pathCurve, progress, introComplete, followingMarker,
                 compassMode, rotVars, camVars, shopper, pathVars, intros, pinVars>>

(***************************************************************************)
(* The arithmetic of playJourney (animator.js 430-468) on a path of any    *)
(* length: durations, phase targets, and the progress the first and the    *)
(* last phase write at equal time steps.  Progress is in 1/ProgressFine.  *)
(***************************************************************************)
ProgressFine == 100000
\* longest path length tried, in 1/Scale units
MaxPathLen == 160
\* most equal time steps an ease phase is sampled at
MaxEaseSteps == 4

\* ease 'power2.out' and 'power2.in' (cubic) at k of n steps, in 1/1000
Power2Out(k, n) == 1000 - (1000 * (n - k) * (n - k) * (n - k)) \div (n * n * n)
Power2In(k, n) == (1000 * k * k * k) \div (n * n * n)

TimelineInputs ==
  {[stage |-> "input", len |-> l, steps |-> n] : l \in 1..MaxPathLen, n \in 2..MaxEaseSteps}

\* playJourney builds the three tweens for the path length calc.len; first and
\* last are the values the ease-out and the ease-in phase write at step k of
\* calc.steps, the agent starting at progress 0
PlayJourneyTimeline ==
  /\ calc.stage = "input"
  /\ LET total == TotalDurationOf(calc.len)
         n == calc.steps
         easeOutEnd == EaseOutEndOf(total, ProgressFine)
         easeInStart == EaseInStartOf(total, ProgressFine)
     IN calc' = [stage |-> "planned", len |-> calc.len, steps |-> n,
                 totalDuration |-> total,
                 easeDuration |-> EaseDurationOf(total),
                 linearDuration |-> LinearDurationOf(total),
                 easeOutEnd |-> easeOutEnd,
                 easeInStart |-> easeInStart,
                 first |-> [k \in 0..n |-> MulDiv(easeOutEnd, Power2Out(k, n), 1000)],
                 last |-> [k \in 0..n |->
                   easeInStart + MulDiv(ProgressFine - easeInStart, Power2In(k, n), 1000)]]
  /\ UNCHANGED <<inited, scene, pathCurve, animVars, rotVars, camVars, shopper, pathVars,
                 tlVars, pinVars, lastOp, calls>>

InitTimeline == Loaded /\ scene = 1 /\ calc \in TimelineInputs

SpecTimeline == InitTimeline /\ [][PlayJourneyTimeline]_vars

(***************************************************************************)
(* Intro transition (animator.js 264-366)                                  *)
(***************************************************************************)
\* power2.inOut (cubic) at k of n steps, in 1/1000
EaseInOut(k, n) ==
  IF 2 * k < n THEN (4000 * k * k * k) \div (n * n * n)
  ELSE 1000 - (4000 * (n - k) * (n - k) * (n - k)) \div (n * n * n)

Mix(a, b, e) == a + MulDiv(b - a, e, 1000)

\* the camera written by onUpdate at eased fraction e (animator.js 330-362)
IntroCamera(e) ==
  LET m == WorldPos(shopper.pos, worldRotation)
  IN [pos |-> <<Mix(0, m[1], e), Mix(90 * Scale, IsoOffsetY, e), Mix(0, m[2] + IsoOffsetZ, e)>>,
      look |-> <<Mix(0, m[1], e), 0, Mix(0, m[2], e)>>,
      lookUp |-> WorldUp,
      up |-> WorldUp]

\* playIntroTransition(onComplete); cb says whether a callback was passed
PlayIntroEffect(cb) ==
  IF ~inited
  THEN UNCHANGED intros
  ELSE intros' = Append(intros, [phase |-> "hold", t |-> 0, cb |-> cb])

PlayIntroTransition ==
  /\ Len(intros) + startTimers < MaxIntros
  /\ PlayIntroEffect(FALSE)
  /\ Command("playIntroTransition")
  /\ UNCHANGED <<inited, scene, pathCurve, animVars, rotVars, camVars, shopper, pathVars,
                 timeline, journeys, startTimers, pinVars>>

\* startFullAnimation (animator.js 396-410), while fewer than n intro timelines
\* and journey-start timers are alive
StartFullAnimationWithin(n) ==
  /\ Len(intros) + startTimers < n
  /\ ZenithEffect
  /\ progress' = 0
  /\ PlayIntroEffect(TRUE)
  /\ Command("startFullAnimation")
  /\ UNCHANGED <<inited, scene, pathCurve, isPlaying, compassMode, rotVars, shopper,
                 pathVars, timeline, journeys, startTimers, pinVars>>

StartFullAnimation == StartFullAnimationWithin(MaxIntros)

MoveStartCompassKept == compassMode
\* animator.js 326: onStart of the move phase, compassMode = false
MoveStartCompassMode == FALSE

\* the 0.5 s hold ends: onStart of the move phase and its first onUpdate
IntroMoveStart(i) ==
  /\ i \in 1..Len(intros)
  /\ intros[i].phase = "hold"
  /\ intros' = [intros EXCEPT ![i].phase = "move"]
  /\ compassMode' = MoveStartCompassMode
  /\ camera' = IntroCamera(0)
  /\ Step("introMoveStart")
  /\ UNCHANGED <<inited, scene, pathCurve, progress, isPlaying, introComplete,
                 followingMarker, rotVars, cameraTarget, cameraOffset, shopper, pathVars,
                 timeline, journeys, startTimers, pinVars>>

\* an onUpdate of the move phase before its end
IntroUpdate(i) ==
  /\ i \in 1..Len(intros)
  /\ intros[i].phase = "move"
  /\ intros[i].t + 1 < IntroSteps
  /\ intros' = [intros EXCEPT ![i].t = @ + 1]
  /\ camera' = IntroCamera(EaseInOut(intros[i].t + 1, IntroSteps))
  /\ Step("introUpdate")
  /\ UNCHANGED <<inited, scene, pathCurve, animVars, rotVars, cameraTarget, cameraOffset,
                 shopper, pathVars, timeline, journeys, startTimers, pinVars>>

\* the last onUpdate and the timeline's onComplete (animator.js 296-314)
IntroComplete(i) ==
  /\ i \in 1..Len(intros)
  /\ intros[i].phase = "move"
  /\ intros[i].t + 1 = IntroSteps
  /\ LET m == WorldPos(shopper.pos, worldRotation)
     IN /\ cameraTarget' = <<m[1], 0, m[2]>>
        /\ camera' = [pos |-> <<m[1] + IsoOffset[1], IsoOffset[2], m[2] + IsoOffset[3]>>,
                      look |-> <<m[1], 0, m[2]>>, lookUp |-> WorldUp, up |-> WorldUp]
  /\ introComplete' = TRUE
  /\ followingMarker' = TRUE
  /\ cameraOffset' = IsoOffset
  /\ intros' = RemoveAt(intros, i)
  /\ startTimers' = IF intros[i].cb THEN startTimers + 1 ELSE startTimers
  /\ Step("introComplete")
  /\ UNCHANGED <<inited, scene, pathCurve, progress, isPlaying, compassMode, rotVars,
                 shopper, pathVars, timeline, journeys, pinVars>>

(***************************************************************************)
(* Deferred callbacks of the proximity engine                              *)
(***************************************************************************)
\* a timer of key k fires: one pending callback less; the handle stored in
\* pinDoneTimers stays in the map (it is only removed by resetJourney)
FireKey(k) ==
  /\ pendingTimers' = [pendingTimers EXCEPT ![k] = @ - 1]
  /\ pinDoneTimers' = [pinDoneTimers EXCEPT ![k] =
       IF @ = "live" /\ pendingTimers[k] = 1 THEN "fired" ELSE @]

\* otherPin is revealed by the completion of pin p (animator.js 239)
RevealedByAny(q, p) == isHidden[q] /\ Pin(q).revealAfter # NoLabel
RevealedBy(q, p) == isHidden[q] /\ Pin(q).revealAfter = Pin(p).label

\* animator.js 208: pin.userData.isDone = true
MarkDoneOnly(p) == [q \in Pins |-> q = p]
MarkDone(p) == [isDone EXCEPT ![p] = TRUE]

\* the 800 ms debounce callback of pin p (animator.js 206-253)
PinDoneTimer(p) ==
  /\ pendingTimers[DoneKey(p)] > 0
  /\ FireKey(DoneKey(p))
  /\ isDone' = MarkDone(p)
  /\ isHidden' = [q \in Pins |-> IF RevealedBy(q, p) THEN FALSE ELSE isHidden[q]]
  /\ Step("pinDoneTimer")
  /\ UNCHANGED <<inited, scene, pathCurve, animVars, rotVars, camVars, shopper, pathVars, tlVars>>

\* the delay-reveal callback of pin p (animator.js 75-90)
PinDelayTimer(p) ==
  /\ pendingTimers[DelayKey(p)] > 0
  /\ FireKey(DelayKey(p))
  /\ isHidden' = [isHidden EXCEPT ![p] = FALSE]
  /\ Step("pinDelayTimer")
  /\ UNCHANGED <<inited, scene, pathCurve, animVars, rotVars, camVars, shopper, pathVars,
                 tlVars, isDone>>

(***************************************************************************)
(* resetJourney (animator.js 496-558)                                      *)
(***************************************************************************)
\* animator.js 506: "Reset to North-up"
ResetCompassToggled == ~compassMode
ResetCompassMode == TRUE

\* animator.js 539: the pin is put back to hidden
ResetHides(p) == Pin(p).revealAfter # NoLabel \/ Pin(p).revealAfterDelay > 0

ClearedTimersNone == pendingTimers
\* animator.js 552: clearTimeout of every handle stored in pinDoneTimers
ClearedTimers == [k \in Keys |->
  IF pinDoneTimers[k] = "live" THEN pendingTimers[k] - 1 ELSE pendingTimers[k]]

ResetJourney ==
  /\ journeys' = KillTimeline
  /\ timeline' = "null"
  /\ isPlaying' = FALSE
  /\ progress' = 0
  /\ compassMode' = ResetCompassMode
  /\ worldRotation' = 0
  /\ targetWorldRotation' = 0
  /\ currentMarkerAngle' = 0
  /\ IF inited
     THEN /\ shopper' = [pos |-> GetPointAt(pathCurve, 0), rot |-> 0]
          /\ uniforms' = [uniforms EXCEPT !.uProgress = 0]
          /\ isDone' = [p \in Pins |-> FALSE]
          /\ isHidden' = [p \in Pins |-> IF ResetHides(p) THEN TRUE ELSE isHidden[p]]
     ELSE UNCHANGED <<shopper, uniforms, isDone, isHidden>>
  /\ pendingTimers' = ClearedTimers
  /\ pinDoneTimers' = [k \in Keys |-> "none"]
  \* introComplete = false and followingMarker = false, then setCameraToZenith
  /\ introComplete' = FALSE
  /\ followingMarker' = FALSE
  /\ IF inited
     THEN /\ camera' = ZenithCamera
          /\ cameraOffset' = ZenithOffset
          /\ cameraTarget' = <<0, 0, 0>>
     ELSE UNCHANGED <<camera, cameraOffset, cameraTarget>>
  /\ Step(ResetName)
  /\ UNCHANGED <<inited, scene, pathCurve, ribbon, pathVisible, pathDrawTimeline, draws,
                 intros, startTimers>>

(***************************************************************************)
(* setProgress, setCompassMode (animator.js 563-587)                       *)
(***************************************************************************)
\* arguments tried for setProgress: below, inside and above [0, 1]
ProgressArgs == {-ProgressOne, 0, ProgressOne \div 2, ProgressOne, 2 * ProgressOne}

\* Math.max(0, Math.min(1, progress))
Clamp01(v) == Max2(0, Min2(ProgressOne, v))

SetProgress(v) ==
  /\ progress' = Clamp01(v)
  /\ Command("setProgress")
  /\ UNCHANGED <<inited, scene, pathCurve, isPlaying, introComplete, followingMarker,
                 compassMode, rotVars, camVars, shopper, pathVars, tlVars, pinVars>>

(***************************************************************************)
(* setProgress over the values of the Number type: finite values in        *)
(* 1/ProgressOne, the two infinities and NaN.  Math.min and Math.max       *)
(* return NaN when an argument is NaN.                                     *)
(***************************************************************************)
\* largest finite argument tried, in 1/ProgressOne
MaxArg == 60

Num(n) == [kind |-> "num", v |-> n]
Infinity(sign) == [kind |-> "inf", v |-> sign]
NaN == [kind |-> "nan", v |-> 0]

Numbers == {Num(n) : n \in -MaxArg..MaxArg} \cup {Infinity(1), Infinity(-1), NaN}

\* a < b for two numbers that are not NaN
NumLess(a, b) ==
  IF a.kind = "inf" THEN a.v < 0 /\ ~(b.kind = "inf" /\ b.v < 0)
  ELSE IF b.kind = "inf" THEN b.v > 0
  ELSE a.v < b.v

MathMin(a, b) ==
  IF a.kind = "nan" \/ b.kind = "nan" THEN NaN ELSE IF NumLess(b, a) THEN b ELSE a
MathMax(a, b) ==
  IF a.kind = "nan" \/ b.kind = "nan" THEN NaN ELSE IF NumLess(a, b) THEN b ELSE a

\* animator.js 564: Math.max(0, Math.min(1, progress))
SetProgressValue(a) == MathMax(Num(0), MathMin(Num(ProgressOne), a))

ClampInputs == {[stage |-> "argument", arg |-> a] : a \in Numbers}

\* setProgress(arg): calc.value is what animatorState.progress is set to
SetProgressOfNumber ==
  /\ calc.stage = "argument"
  /\ calc' = [stage |-> "clamped", arg |-> calc.arg, value |-> SetProgressValue(calc.arg)]
  /\ UNCHANGED <<inited, scene, pathCurve, animVars, rotVars, camVars, shopper, pathVars,
                 tlVars, pinVars, lastOp, calls>>

InitClamp == Loaded /\ scene = 1 /\ calc \in ClampInputs

SpecClamp == InitClamp /\ [][SetProgressOfNumber]_vars

SetCompassMode(enabled) ==
  /\ compassMode' = enabled
  /\ Command("setCompassMode")
  /\ UNCHANGED <<inited, scene, pathCurve, progress, isPlaying, introComplete,
                 followingMarker, rotVars, camVars, shopper, pathVars, tlVars, pinVars>>

(***************************************************************************)
(* setPathVisible and the path-draw tween (animator.js 600-640)            *)
(***************************************************************************)
\* number of update steps of the 1.5 s draw tween
DrawSteps == 1

\* power2.out (cubic) at k of n steps, in 1/ProgressOne
EaseOut(k, n) == ProgressOne - (ProgressOne * (n - k) * (n - k) * (n - k)) \div (n * n * n)

KillDrawSkipped == draws
\* animator.js 609-612: kill the draw animation animatorState refers to
KillDraw == IF pathDrawTimeline = "live" THEN ButLast(draws) ELSE draws

SetPathVisible(visible) ==
  /\ inited
  /\ pathVisible' = visible
  /\ IF visible
     THEN /\ uniforms' = [uniforms EXCEPT !.uVisible = 1, !.uDrawProgress = 0]
          /\ draws' = Append(KillDraw, [t |-> 0])
          /\ pathDrawTimeline' = "live"
     ELSE /\ uniforms' = [uniforms EXCEPT !.uVisible = 0, !.uDrawProgress = 0]
          /\ draws' = KillDraw
          /\ pathDrawTimeline' = "null"
  /\ Command("setPathVisible")
  /\ UNCHANGED <<inited, scene, pathCurve, animVars, rotVars, camVars, shopper, ribbon,
                 tlVars, pinVars>>

\* the tween engine advances draw tween i; its onComplete clears the reference
DrawStep(i) ==
  /\ i \in 1..Len(draws)
  /\ LET t == draws[i].t + 1
     IN /\ uniforms' = [uniforms EXCEPT !.uDrawProgress = EaseOut(t, DrawSteps)]
        /\ IF t = DrawSteps
           THEN /\ draws' = RemoveAt(draws, i)
                /\ pathDrawTimeline' = "null"
           ELSE /\ draws' = [draws EXCEPT ![i].t = t]
                /\ UNCHANGED pathDrawTimeline
  /\ Step("drawStep")
  /\ UNCHANGED <<inited, scene, pathCurve, animVars, rotVars, camVars, shopper, ribbon,
                 pathVisible, tlVars, pinVars>>

(***************************************************************************)
(* createRoundedPath (scene.js 460-521) on waypoint lists whose segments   *)
(* run along an axis, as those of pathDefinitions do.  Coordinates and     *)
(* radii are in tenths of a unit; the points pushed are kept exact, as     *)
(* multiples of 1/256 of a tenth (the Bezier weights are j/16 squared).    *)
(***************************************************************************)
\* longest segment tried, in half units
MaxSeg == 3
\* one tenth of a unit, in the units of the points pushed
PointOne == 256
\* "const arcPoints = 16"
ArcPoints == 16

\* steps from one waypoint to the next: along x or along z, either way
SegmentSteps ==
  {<<d * 5 * k, 0>> : d \in {-1, 1}, k \in 1..MaxSeg}
    \cup {<<0, d * 5 * k>> : d \in {-1, 1}, k \in 1..MaxSeg}

RECURSIVE WaypointsOf(_, _)
\* the waypoint list that starts at from and takes the steps in turn
WaypointsOf(from, steps) ==
  IF steps = <<>> THEN <<from>>
  ELSE <<from>> \o WaypointsOf(<<from[1] + Head(steps)[1], from[2] + Head(steps)[2]>>,
                                Tail(steps))

\* cornerRadius arguments tried, in tenths: 0.2, 0.5 and the 3.0 of the callers
RadiusArgs == {2, 5, 30}

WaypointLists ==
  {WaypointsOf(<<0, 0>>, st) : st \in [1..2 -> SegmentSteps] \cup [1..3 -> SegmentSteps]}

\* Math.sqrt(dx ^ 2 + dz ^ 2) of a segment along an axis
SegmentLength(a, b) == IF a[2] = b[2] THEN Abs(b[1] - a[1]) ELSE Abs(b[2] - a[2])

MaxRadiusLoose(distToPrev, distToNext) == (Min2(distToPrev, distToNext) * 6) \div 10
\* scene.js 482: Math.min(distToPrev, distToNext) * 0.4
MaxRadius(distToPrev, distToNext) == (Min2(distToPrev, distToNext) * 4) \div 10

\* scene.js 483: actualRadius at the interior waypoint i
ActualRadius(wps, cornerRadius, i) ==
  Min2(cornerRadius,
       MaxRadius(SegmentLength(wps[i - 1], wps[i]), SegmentLength(wps[i], wps[i + 1])))

\* scene.js 485-492: unit direction from a to b
Direction(a, b) ==
  <<(b[1] - a[1]) \div SegmentLength(a, b), (b[2] - a[2]) \div SegmentLength(a, b)>>

BeforeCorner(wps, cornerRadius, i) ==
  LET dir == Direction(wps[i - 1], wps[i])
      r == ActualRadius(wps, cornerRadius, i)
  IN <<wps[i][1] - dir[1] * r, wps[i][2] - dir[2] * r>>

AfterCorner(wps, cornerRadius, i) ==
  LET dir == Direction(wps[i], wps[i + 1])
      r == ActualRadius(wps, cornerRadius, i)
  IN <<wps[i][1] + dir[1] * r, wps[i][2] + dir[2] * r>>

\* a point in the units of the points pushed
Pushed(p) == <<p[1] * PointOne, p[2] * PointOne>>

\* scene.js 507-513: the quadratic Bezier point at t = j / arcPoints
BezierPoint(before, current, after, j) ==
  LET u == ArcPoints - j
  IN <<u * u * before[1] + 2 * u * j * current[1] + j * j * after[1],
       u * u * before[2] + 2 * u * j * current[2] + j * j * after[2]>>

CornerPointsNoCutOut(wps, cornerRadius, i) ==
  LET before == BeforeCorner(wps, cornerRadius, i)
      after == AfterCorner(wps, cornerRadius, i)
  IN <<Pushed(before)>>
       \o [j \in 1..(ArcPoints - 1) |-> BezierPoint(before, wps[i], after, j)]

\* scene.js 503-516: what the loop body pushes for the interior waypoint i
CornerPoints(wps, cornerRadius, i) ==
  LET before == BeforeCorner(wps, cornerRadius, i)
      after == AfterCorner(wps, cornerRadius, i)
  IN <<Pushed(before)>>
       \o [j \in 1..(ArcPoints - 1) |-> BezierPoint(before, wps[i], after, j)]
       \o <<Pushed(after)>>

RECURSIVE PointsFrom(_, _, _)
\* scene.js 463-517: the points pushed for the waypoints i, i + 1, ...
PointsFrom(wps, cornerRadius, i) ==
  IF i > Len(wps) THEN <<>>
  ELSE (IF i = 1 \/ i = Len(wps) THEN <<Pushed(wps[i])>>
        ELSE CornerPoints(wps, cornerRadius, i))
       \o PointsFrom(wps, cornerRadius, i + 1)

\* CatmullRomCurve3 (not closed) runs through its points in order:
\* getPointAt(0) is the first point and getPointAt(1) the last
CurveStart(points) == points[1]
CurveEnd(points) == points[Len(points)]

RoundedPathInputs ==
  {[stage |-> "waypoints", waypoints |-> w, cornerRadius |-> r] :
     w \in WaypointLists, r \in RadiusArgs}

CreateRoundedPath ==
  /\ calc.stage = "waypoints"
  /\ LET wps == calc.waypoints
         points == PointsFrom(wps, calc.cornerRadius, 1)
     IN calc' = [stage |-> "rounded", waypoints |-> wps, cornerRadius |-> calc.cornerRadius,
                 radii |-> [i \in 2..(Len(wps) - 1) |-> ActualRadius(wps, calc.cornerRadius, i)],
                 points |-> points,
                 start |-> CurveStart(points),
                 end |-> CurveEnd(points)]
  /\ UNCHANGED <<inited, scene, pathCurve, animVars, rotVars, camVars, shopper, pathVars,
                 tlVars, pinVars, lastOp, calls>>

InitRoundedPath == Loaded /\ scene = 1 /\ calc \in RoundedPathInputs

SpecRoundedPath == InitRoundedPath /\ [][CreateRoundedPath]_vars

(***************************************************************************)
(* createRibbonGeometry (scene.js 1062-1116) on the curve createRoundedPath *)
(* returns for a waypoint list.  The progress attribute is in              *)
(* 1/NumSamples (t = i / numSamples is i, and 1 is NumSamples); a vertex   *)
(* is named by the sample it was computed from and its side of the curve.  *)
(***************************************************************************)
\* "const numSamples = 600"
NumSamples == 600

\* scene.js 1091-1092: iteration i pushes the left and then the right vertex
RibbonVertices(curve) ==
  [k \in 1..(2 * (NumSamples + 1)) |->
     [curve |-> curve, sample |-> (k - 1) \div 2,
      side |-> IF (k - 1) % 2 = 0 THEN "left" ELSE "right"]]

\* scene.js 1098-1099: iteration i pushes t twice
RibbonProgress == [k \in 1..(2 * (NumSamples + 1)) |-> (k - 1) \div 2]

RibbonIndicesUnguarded ==
  [k \in 1..(6 * (NumSamples + 1)) |->
     2 * ((k - 1) \div 6) + <<0, 1, 2, 1, 3, 2>>[((k - 1) % 6) + 1]]
\* scene.js 1101-1105: every iteration i < numSamples pushes base, base + 1,
\* base + 2, base + 1, base + 3, base + 2 with base = i * 2
RibbonIndices ==
  [k \in 1..(6 * NumSamples) |->
     2 * ((k - 1) \div 6) + <<0, 1, 2, 1, 3, 2>>[((k - 1) % 6) + 1]]

\* the curves of the waypoint lists with one corner, rounded as the callers do
RibbonInputs ==
  {[stage |-> "curve", waypoints |-> WaypointsOf(<<0, 0>>, st), cornerRadius |-> 30] :
     st \in [1..2 -> SegmentSteps]}

CreateRibbonGeometry ==
  /\ calc.stage = "curve"
  /\ calc' = [stage |-> "ribbon", waypoints |-> calc.waypoints,
              cornerRadius |-> calc.cornerRadius,
              position |-> RibbonVertices(calc.waypoints),
              aProgress |-> RibbonProgress,
              index |-> RibbonIndices]
  /\ UNCHANGED <<inited, scene, pathCurve, animVars, rotVars, camVars, shopper, pathVars,
                 tlVars, pinVars, lastOp, calls>>

InitRibbon == Loaded /\ scene = 1 /\ calc \in RibbonInputs

SpecRibbon == InitRibbon /\ [][CreateRibbonGeometry]_vars

(***************************************************************************)
(* switchPath (animator.js 654-682) with the scene's switch function       *)
(* (scene.js 1427-1444), which returns null for an unregistered id         *)
(***************************************************************************)
\* what the switch function returns for an unregistered id
NullCurve == -1

SceneSwitchPathLenient(pathId) == IF pathId \in PathIds THEN pathId ELSE DefaultPath
\* scene.js 1427-1444: the curve the switch function returns
SceneSwitchPath(pathId) == IF pathId \in PathIds THEN pathId ELSE NullCurve

SwitchPath(pathId) ==
  /\ inited
  /\ LET newCurve == SceneSwitchPath(pathId)
     IN IF newCurve # NullCurve
        THEN /\ ribbon' = newCurve
             /\ pathCurve' = newCurve
             /\ progress' = 0
             /\ shopper' = [pos |-> GetPointAt(newCurve, 0), rot |-> 0]
             /\ uniforms' = [uniforms EXCEPT !.uProgress = 0]
        ELSE UNCHANGED <<ribbon, pathCurve, progress, shopper, uniforms>>
  /\ Command(IF SceneSwitchPath(pathId) # NullCurve THEN "switchPath" ELSE "switchPathUnknown")
  /\ UNCHANGED <<inited, scene, isPlaying, introComplete, followingMarker, compassMode,
                 rotVars, camVars, pathVisible, pathDrawTimeline, draws, tlVars, pinVars>>

(***************************************************************************)
(* The program: the frame loop, the commands, the timers and the tweens    *)
(***************************************************************************)
Next ==
  \/ InitAnimator
  \/ UpdateAnimator
  \/ SetCameraToZenith
  \/ PlayIntroTransition
  \/ StartFullAnimation
  \/ \E i \in 1..MaxIntros : IntroMoveStart(i)
  \/ \E i \in 1..MaxIntros : IntroUpdate(i)
  \/ \E i \in 1..MaxIntros : IntroComplete(i)
  \/ JourneyStartTimer
  \/ PlayJourney
  \/ \E i \in 1..MaxIntros : JourneyStep(i)
  \/ PauseJourney
  \/ ResumeJourney
  \/ ResetJourney
  \/ \E v \in ProgressArgs : SetProgress(v)
  \/ \E b \in BOOLEAN : SetCompassMode(b)
  \/ \E b \in BOOLEAN : SetPathVisible(b)
  \/ \E i \in 1..MaxIntros : DrawStep(i)
  \/ \E id \in PathIds \cup {UnknownPath} : SwitchPath(id)
  \/ \E p \in Pins : PinDoneTimer(p)
  \/ \E p \in Pins : PinDelayTimer(p)

Spec == Init /\ [][Next]_vars

(***************************************************************************)
(* The journey as its transport drives it: every operation that starts,    *)
(* steps, pauses, kills or resets a journey timeline or writes progress or *)
(* isPlaying, in the scene with a delay reveal.  The camera, compass and   *)
(* path-visibility commands touch none of these.                           *)
(***************************************************************************)
DelayScene == 2

InitJourney == Init /\ scene = DelayScene

NextJourney ==
  \/ InitAnimator
  \/ UpdateAnimator
  \/ StartFullAnimation
  \/ \E i \in 1..MaxIntros : IntroMoveStart(i)
  \/ \E i \in 1..MaxIntros : IntroUpdate(i)
  \/ \E i \in 1..MaxIntros : IntroComplete(i)
  \/ JourneyStartTimer
  \/ PlayJourney
  \/ \E i \in 1..MaxIntros : JourneyStep(i)
  \/ PauseJourney
  \/ ResumeJourney
  \/ ResetJourney
  \/ \E v \in ProgressArgs : SetProgress(v)
  \/ \E id \in PathIds \cup {UnknownPath} : SwitchPath(id)
  \/ \E p \in Pins : PinDoneTimer(p)
  \/ \E p \in Pins : PinDelayTimer(p)

\* the journey in the scene with a heart pin
InitHeart == Loaded /\ scene = HeartScene /\ calc = NoCalc

SpecHeart == InitHeart /\ [][NextJourney]_vars

(***************************************************************************)
(* The path ribbon as the path selector and the frame loop drive it: the   *)
(* operations that write the ribbon's uniforms or its geometry, and the    *)
(* reset.                                                                  *)
(***************************************************************************)
NextPathDraw ==
  \/ InitAnimator
  \/ UpdateAnimator
  \/ \E b \in BOOLEAN : SetPathVisible(b)
  \/ \E i \in 1..MaxIntros : DrawStep(i)
  \/ \E id \in PathIds \cup {UnknownPath} : SwitchPath(id)
  \/ \E v \in ProgressArgs : SetProgress(v)
  \/ ResetJourney
  \/ \E p \in Pins : PinDoneTimer(p)
  \/ \E p \in Pins : PinDelayTimer(p)

\* the tween engine's ticker advances every running tween on every frame
LivePathDraw ==
  InitJourney /\ [][NextPathDraw]_vars /\ WF_vars(\E i \in 1..MaxIntros : DrawStep(i))

\* a timer set with setTimeout fires unless it is cleared
LivePins ==
  InitJourney /\ [][NextJourney]_vars /\ \A p \in Pins : WF_vars(PinDoneTimer(p))

\* the tween engine's ticker advances every running timeline on every frame
LiveSpec ==
  InitJourney /\ [][NextJourney]_vars /\ WF_vars(\E i \in 1..MaxIntros : JourneyStep(i))

(***************************************************************************)
(* The transport of a journey that is under way: the state after           *)
(* initAnimator, setCameraToZenith and a first playJourney in the scene    *)
(* with a delay reveal, and from there the frame loop, the tween engine,   *)
(* the timers and the calls that pause, resume, restart, reset or move the *)
(* journey.  calls counts the commands issued after that first playJourney.*)
(***************************************************************************)
JourneyStarted ==
  /\ inited = TRUE
  /\ scene = DelayScene
  /\ pathCurve = DefaultPath
  /\ progress = 0
  /\ isPlaying = TRUE
  /\ introComplete = FALSE
  /\ followingMarker = FALSE
  /\ compassMode = TRUE
  /\ currentMarkerAngle = 0
  /\ worldRotation = 0
  /\ targetWorldRotation = 0
  /\ cameraTarget = <<0, 0, 0>>
  /\ cameraOffset = ZenithOffset
  /\ camera = ZenithCamera
  /\ shopper = [pos |-> PathStart(DefaultPath), rot |-> AngPi \div 2]
  /\ uniforms = [uProgress |-> 0, uVisible |-> 0, uDrawProgress |-> 0]
  /\ ribbon = DefaultPath
  /\ pathVisible = FALSE
  /\ pathDrawTimeline = "null"
  /\ draws = <<>>
  /\ timeline = "live"
  /\ journeys = <<[time |-> 0, paused |-> FALSE, curve |-> DefaultPath]>>
  /\ intros = <<>>
  /\ startTimers = 0
  /\ isHidden = [p \in Pins |-> SceneDefs[DelayScene][p].hidden]
  /\ isDone = [p \in Pins |-> FALSE]
  /\ pinDoneTimers = [k \in Keys |->
       IF \E p \in Pins : k = DelayKey(p) /\ SceneDefs[DelayScene][p].hidden
                            /\ SceneDefs[DelayScene][p].revealAfterDelay > 0
       THEN "live" ELSE "none"]
  /\ pendingTimers = [k \in Keys |->
       IF \E p \in Pins : k = DelayKey(p) /\ SceneDefs[DelayScene][p].hidden
                            /\ SceneDefs[DelayScene][p].revealAfterDelay > 0
       THEN 1 ELSE 0]
  /\ lastOp = "playJourney"

InitTransport == JourneyStarted /\ calls = 0 /\ calc = NoCalc

NextTransport ==
  \/ UpdateAnimator
  \/ PlayJourney
  \/ \E i \in 1..MaxIntros : JourneyStep(i)
  \/ PauseJourney
  \/ ResumeJourney
  \/ ResetJourney
  \/ \E v \in ProgressArgs : SetProgress(v)
  \/ \E id \in PathIds \cup {UnknownPath} : SwitchPath(id)
  \/ \E p \in Pins : PinDoneTimer(p)
  \/ \E p \in Pins : PinDelayTimer(p)

SpecTransport == InitTransport /\ [][NextTransport]_vars

(***************************************************************************)
(* The full sequence as main.js drives it: the scene is initialised, SPACE *)
(* calls startFullAnimation (main.js 289-299), the frame loop ticks, and    *)
(* the tween engine and the timers run; no other command is issued.        *)
(***************************************************************************)
\* most intro timelines / journey-start timers alive at once in this run
MaxSeqIntros == 2

NextSequence ==
  \/ InitAnimator
  \/ UpdateAnimator
  \/ StartFullAnimationWithin(MaxSeqIntros)
  \/ \E i \in 1..MaxSeqIntros : IntroMoveStart(i)
  \/ \E i \in 1..MaxSeqIntros : IntroUpdate(i)
  \/ \E i \in 1..MaxSeqIntros : IntroComplete(i)
  \/ JourneyStartTimer
  \/ \E i \in 1..MaxSeqIntros : JourneyStep(i)
  \/ \E p \in Pins : PinDoneTimer(p)
  \/ \E p \in Pins : PinDelayTimer(p)

SpecSequence == Init /\ [][NextSequence]_vars

(***************************************************************************)
(* Properties                                                              *)
(***************************************************************************)
Rank(hidden, done) == IF done THEN 2 ELSE IF hidden THEN 0 ELSE 1

\* squared planar distance of pin p to a position, in 1/Scale units
Dist2(p, pos) ==
  (pos[1] - Pin(p).x) * (pos[1] - Pin(p).x) + (pos[2] - Pin(p).z) * (pos[2] - Pin(p).z)

\* C1: when resetJourney returns, no timeline that was started before it is
\* still held by the tween engine (no intro timeline, no journey progress
\* timeline, no path-draw tween), so none of them can write after the reset.
C1_NoTimelineSurvivesReset ==
  lastOp \in ResetOps => (intros = <<>> /\ journeys = <<>> /\ draws = <<>>)

\* C2: when resetJourney returns, no deferred callback scheduled before it is
\* still pending: no proximity debounce timer, no delay-reveal timer and no
\* 500 ms journey-start timer.
C2_NoTimerSurvivesReset ==
  lastOp \in ResetOps => (startTimers = 0 /\ \A k \in Keys : pendingTimers[k] = 0)

\* C2, the part the code keeps: the pin timers are all cancelled by a reset.
C2_PinTimersCleared ==
  lastOp \in ResetOps => \A k \in Keys : pendingTimers[k] = 0 /\ pinDoneTimers[k] = "none"

C4_ResetRestoresInitial ==
  (lastOp \in ResetOps /\ inited) =>
    /\ progress = 0
    /\ ~introComplete /\ ~followingMarker /\ compassMode
    /\ currentMarkerAngle = 0 /\ worldRotation = 0 /\ targetWorldRotation = 0
    /\ cameraTarget = <<0, 0, 0>> /\ cameraOffset = ZenithOffset
    /\ camera = ZenithCamera
    /\ \A p \in Pins : PinState(p) = CreatedState(p)

\* C4, the part the code keeps: everything but the pins created visible with
\* a reveal attribute.
C4_ResetRestoresFields ==
  (lastOp \in ResetOps /\ inited) =>
    /\ progress = 0
    /\ ~introComplete /\ ~followingMarker /\ compassMode
    /\ currentMarkerAngle = 0 /\ worldRotation = 0 /\ targetWorldRotation = 0
    /\ cameraTarget = <<0, 0, 0>> /\ cameraOffset = ZenithOffset
    /\ camera = ZenithCamera
    /\ \A p \in Pins : ~ResetHides(p) \/ Pin(p).hidden => PinState(p) = CreatedState(p)

\* C5: every pin has at most one proximity debounce timer pending, and a tick
\* schedules one only for a pin that has no timer handle yet (neither pending
\* nor fired since the last reset).
C5_OneDebounceTimer ==
  [][\A p \in Pins :
       /\ pendingTimers'[DoneKey(p)] <= 1
       /\ (pendingTimers'[DoneKey(p)] > pendingTimers[DoneKey(p)]
             => pinDoneTimers[DoneKey(p)] = "none")]_vars

C5_Witness ==
  \E p \in Pins :
    /\ lastOp = "updateAnimator"
    /\ calls = 2
    /\ pendingTimers[DoneKey(p)] = 1
    /\ Dist2(p, shopper.pos) <= 49 * Scale * Scale

\* C6: in every step that is not a reset no pin moves backward in
\* Hidden < Visible < Done; in particular a Done pin stays Done.
C6_PinsMoveForward ==
  [][lastOp' \notin ResetOps =>
       \A p \in Pins : Rank(isHidden'[p], isDone'[p]) >= Rank(isHidden[p], isDone[p])]_vars

C6_Witness ==
  /\ lastOp \notin ResetOps
  /\ \E p, q \in Pins : p # q /\ isDone[p] /\ isDone[q] /\ Pin(q).hidden

\* C7: a pin becomes Done only when one of its debounce timers fires, and a
\* debounce timer is scheduled only on a tick at which the pin is neither
\* Hidden nor Done and within 7 units (planar) of the agent.
C7_DoneOnlyByProximity ==
  [][\A p \in Pins :
       /\ (isDone'[p] /\ ~isDone[p])
            => pendingTimers'[DoneKey(p)] < pendingTimers[DoneKey(p)]
       /\ (pendingTimers'[DoneKey(p)] > pendingTimers[DoneKey(p)])
            => /\ lastOp' = "updateAnimator"
               /\ ~isHidden[p] /\ ~isDone[p]
               /\ Dist2(p, shopper'.pos) <= 49 * Scale * Scale]_vars

C7_Witness ==
  /\ lastOp = "pinDoneTimer"
  /\ \E p \in Pins : isDone[p] /\ Dist2(p, shopper.pos) > 49 * Scale * Scale
  /\ \E p \in Pins : isHidden[p] /\ Dist2(p, shopper.pos) <= 49 * Scale * Scale

\* C8: in the step in which pin p becomes Done, every Hidden pin whose
\* revealAfter is p's label becomes Visible and every Hidden pin whose
\* revealAfter names another pin stays Hidden.
C8_RevealChain ==
  [][\A p \in Pins : (isDone'[p] /\ ~isDone[p]) =>
       \A q \in Pins : isHidden[q] =>
         /\ Pin(q).revealAfter = Pin(p).label => ~isHidden'[q]
         /\ Pin(q).revealAfter \notin {NoLabel, Pin(p).label} => isHidden'[q]]_vars

C8_Witness ==
  /\ lastOp = "pinDoneTimer"
  /\ \E p, q, r \in Pins :
       /\ isDone[p]
       /\ Pin(q).hidden /\ Pin(q).revealAfter = Pin(p).label /\ ~isHidden[q] /\ ~isDone[q]
       /\ isHidden[r] /\ Pin(r).revealAfter = Pin(q).label

\* C9: initAnimator leaves exactly one delay timer pending for every pin that
\* is Hidden and has a revealAfterDelay; nothing else schedules one; it stays
\* pending until it fires or a reset clears it, and when it fires the pin is
\* Visible, whatever the progress and the agent's position.
C9_DelayReveal ==
  [][\A p \in Pins :
       /\ (lastOp' = "initAnimator" /\ Pin(p).hidden /\ Pin(p).revealAfterDelay > 0)
            => pendingTimers'[DelayKey(p)] = 1
       /\ (pendingTimers'[DelayKey(p)] > pendingTimers[DelayKey(p)])
            => lastOp' = "initAnimator"
       /\ (pendingTimers'[DelayKey(p)] < pendingTimers[DelayKey(p)])
            => \/ lastOp' \in ResetOps
               \/ lastOp' = "pinDelayTimer" /\ ~isHidden'[p]]_vars

C9_Witness ==
  /\ lastOp = "pinDelayTimer"
  /\ timeline = "null" /\ progress = 0
  /\ \E p \in Pins : Pin(p).hidden /\ Pin(p).revealAfterDelay > 0 /\ ~isHidden[p]

\* C10: the tween engine never holds more than one journey progress
\* timeline, and a held one is the one animatorState.timeline refers to.
C10_OneJourneyTimeline ==
  /\ Len(journeys) <= 1
  /\ Len(journeys) = 1 <=> timeline = "live"

C10_Witness ==
  /\ lastOp = "playJourney"
  /\ Len(journeys) = 1
  /\ journeys[1].time = 0
  /\ progress = EaseOutEnd(pathCurve)

\* C11: at most one intro-camera timeline is alive at any time: a
\* startFullAnimation issued while an intro transition is running cancels or
\* replaces the running one.
C11_OneIntroTimeline == Len(intros) <= 1

\* C12: the timeline playJourney has just started does not decrease progress,
\* whatever progress was when playJourney was called: its first step, taken
\* before anything else writes progress, leaves progress at least as large.
C12_ProgressNeverDecreases ==
  [][\A i \in 1..Len(journeys) :
       (lastOp = "playJourney" /\ JourneyStep(i)) => progress' >= progress]_vars

\* C12, the part the code keeps: the phase targets are ordered within [0, 1].
C12_PhaseTargetsOrdered ==
  \A i \in 1..Len(journeys) :
    /\ 0 <= EaseOutEnd(journeys[i].curve)
    /\ EaseOutEnd(journeys[i].curve) <= EaseInStart(journeys[i].curve)
    /\ EaseInStart(journeys[i].curve) <= ProgressOne

\* C13: for every positive path length the durations playJourney computes
\* satisfy easeOutDuration + easeInDuration <= totalDuration (the linear
\* phase is never negative), with totalDuration = pathLength / 2.5 and
\* easeDuration = min(1.5 s, 5% of totalDuration).
C13_EasePhasesFit ==
  calc.stage = "planned" =>
    /\ calc.totalDuration * 25 * Scale = calc.len * 1000 * 10
    /\ calc.easeDuration + calc.easeDuration <= calc.totalDuration
    /\ calc.linearDuration >= 0
    /\ calc.easeDuration <= 1500
    /\ calc.easeDuration * 100 <= calc.totalDuration * 5
    /\ calc.easeDuration = 1500 \/ calc.easeDuration * 100 = calc.totalDuration * 5

C13_Witness ==
  /\ calc.stage = "planned"
  /\ calc.len = 1
  /\ calc.easeDuration < 1500
  /\ calc.linearDuration > 0

\* the journey timeline animatorState holds is running / is paused
JourneyRunning == timeline = "live" /\ ~journeys[Len(journeys)].paused
JourneyPaused == timeline = "live" /\ journeys[Len(journeys)].paused
\* the timeline has completed: progress is 1 and the signal is raised
JourneyCompleted == timeline = "done" /\ progress = ProgressOne /\ ~isPlaying

\* C14: a running journey timeline that is not paused, killed or reset
\* eventually completes with progress = 1 and isPlaying = false; the
\* completion is the step that writes progress = 1, never an earlier one.
C14_JourneyCompletes ==
  /\ JourneyRunning ~> (JourneyCompleted \/ JourneyPaused \/ timeline = "null")
  /\ [][\A i \in 1..Len(journeys) :
          (JourneyStep(i) /\ Len(journeys') < Len(journeys))
            => (progress' = ProgressOne /\ ~isPlaying' /\ journeys[i].time + 1 = JEnd)]_vars

C14_Witness ==
  /\ JourneyCompleted
  /\ lastOp = "other"
  /\ calls = 1

\* progress gained in the k-th of the equal time steps of a sampled phase
Gain(samples, k) == samples[k] - samples[k - 1]

\* C15: the first phase accelerates from rest (the progress gained per equal
\* time step does not decrease during the phase) and the last phase
\* decelerates to rest (the gain per step does not increase).
C15_EaseShape ==
  calc.stage = "planned" =>
    \A k \in 2..calc.steps :
      /\ Gain(calc.first, k) >= Gain(calc.first, k - 1)
      /\ Gain(calc.last, k) <= Gain(calc.last, k - 1)

\* C15, what the code does instead: the first phase starts at its highest
\* speed and slows down, the last phase speeds up until progress = 1.
C15_EaseShapeReversed ==
  calc.stage = "planned" =>
    \A k \in 2..calc.steps :
      /\ Gain(calc.first, k) <= Gain(calc.first, k - 1)
      /\ Gain(calc.last, k) >= Gain(calc.last, k - 1)

\* C16: the completion of the intro timeline of a full sequence started from
\* Zenith, with no other command issued, leaves followingMarker and
\* introComplete true, compassMode false, cameraOffset = (0, 37.5, 30),
\* cameraTarget = the agent's world position on the ground plane and the
\* camera at cameraTarget + cameraOffset.
C16_SeamlessHandoff ==
  [][\A i \in 1..Len(intros) : IntroComplete(i) =>
       LET agent == WorldPos(shopper'.pos, worldRotation')
       IN /\ followingMarker' /\ introComplete' /\ ~compassMode'
          /\ cameraOffset' = <<0, (375 * Scale) \div 10, 30 * Scale>>
          /\ cameraTarget' = <<agent[1], 0, agent[2]>>
          /\ camera'.pos = <<cameraTarget'[1] + cameraOffset'[1],
                             cameraTarget'[2] + cameraOffset'[2],
                             cameraTarget'[3] + cameraOffset'[3]>>
          /\ camera'.look = cameraTarget']_vars

C16_Witness ==
  /\ calls = 1
  /\ startTimers = 1
  /\ intros = <<>>
  /\ followingMarker /\ introComplete /\ ~compassMode
  /\ cameraOffset = IsoOffset
  /\ camera.pos = <<cameraTarget[1], IsoOffsetY, cameraTarget[3] + IsoOffsetZ>>

\* C17: followingMarker starts false and becomes true only in the completion
\* of an intro transition; no tick, playJourney, pause, resume, setProgress,
\* setCompassMode, setPathVisible or switchPath changes it, and
\* setCameraToZenith and resetJourney leave it false.
C17_FollowingOnlyByIntro ==
  /\ ~followingMarker
  /\ [][/\ ((followingMarker' /\ ~followingMarker)
              => (\E i \in 1..Len(intros) : IntroComplete(i)))
         /\ ((followingMarker' # followingMarker)
              => ~(\/ UpdateAnimator
                   \/ PlayJourney
                   \/ PauseJourney
                   \/ ResumeJourney
                   \/ \E v \in ProgressArgs : SetProgress(v)
                   \/ \E b \in BOOLEAN : SetCompassMode(b)
                   \/ \E b \in BOOLEAN : SetPathVisible(b)
                   \/ \E id \in PathIds \cup {UnknownPath} : SwitchPath(id)))
         /\ (followingMarker' => ~(SetCameraToZenith \/ ResetJourney))]_vars

C17_Witness ==
  /\ followingMarker /\ introComplete
  /\ calls = MaxCalls
  /\ lastOp = "updateAnimator"

\* everything but the bookkeeping of the run
programVars == <<inited, scene, pathCurve, animVars, rotVars, camVars, shopper, pathVars,
                 tlVars, pinVars>>

\* C18: an entry point invoked while the scene handles are missing (before
\* initAnimator has merged them) changes no state: updateAnimator,
\* playIntroTransition, startFullAnimation, playJourney and resumeJourney.
C18_NoOpWithoutDependencies ==
  [][(~inited /\ (\/ UpdateAnimator
                  \/ PlayIntroTransition
                  \/ StartFullAnimation
                  \/ PlayJourney
                  \/ ResumeJourney))
       => UNCHANGED programVars]_vars

\* C18, the part the code keeps: the entry points that check their handles
\* first.
C18_GuardedEntryPoints ==
  [][(~inited /\ (UpdateAnimator \/ PlayIntroTransition \/ PlayJourney))
       => UNCHANGED programVars]_vars

C20_StaysAtNewStart ==
  [][(lastOp = "switchPath" /\ \E i \in 1..Len(journeys) : JourneyStep(i))
       => progress' = 0]_vars

\* C20, the part the code keeps: the switch itself installs the new curve and
\* ribbon and puts progress, the agent and the shader progress at its start.
C20_SwitchResets ==
  [][\A id \in PathIds :
       SwitchPath(id) => /\ pathCurve' = id
                         /\ ribbon' = id
                         /\ progress' = 0
                         /\ shopper' = [pos |-> GetPointAt(id, 0), rot |-> 0]
                         /\ uniforms'.uProgress = 0]_vars

\* C21: progress is within [0, 1] whatever number setProgress is given: the
\* value it writes is a number between 0 and 1.
C21_SetProgressClamps ==
  calc.stage = "clamped" =>
    (calc.value.kind = "num" /\ calc.value.v \in 0..ProgressOne)

\* C21, the part the code keeps: for every argument other than NaN the value
\* written is in [0, 1], and only NaN yields NaN.
C21_ClampsOrderedNumbers ==
  calc.stage = "clamped" =>
    IF calc.arg.kind = "nan" THEN calc.value = NaN
    ELSE calc.value.kind = "num" /\ calc.value.v \in 0..ProgressOne

\* C21, the part the code keeps: with finite arguments progress never
\* leaves [0, 1], whatever the timelines, resets and switches write.
C21_ProgressInRange == progress \in 0..ProgressOne

\* C22: every tick that runs the compass sets targetWorldRotation to 0 in
\* North-up mode and to -currentMarkerAngle + pi in Follow mode; in North-up
\* mode with worldRotation = 0 the tick leaves worldRotation at 0.
C22_CompassTarget ==
  [][(lastOp' = "updateAnimator" /\ inited /\ UpdateAnimator)
       => /\ targetWorldRotation' = (IF compassMode THEN 0 ELSE -currentMarkerAngle' + AngPi)
          /\ ((compassMode /\ worldRotation = 0) => worldRotation' = 0)]_vars

\* a tick in Follow mode on the path that runs along x: the target is pi / 2
C22_Witness ==
  /\ lastOp = "updateAnimator"
  /\ inited /\ ~compassMode
  /\ currentMarkerAngle = AngPi \div 2
  /\ targetWorldRotation = AngPi \div 2

\* a tick in North-up mode with the world at rest
C22_WitnessNorthUp ==
  /\ lastOp = "updateAnimator"
  /\ inited /\ compassMode
  /\ worldRotation = 0 /\ targetWorldRotation = 0
  /\ progress > 0

\* C23: for any worldRotation and targetWorldRotation the normalized delta
\* lies in [-pi, pi] and is congruent to target - world modulo 2 pi, and the
\* tick changes worldRotation by delta * 0.027, never by more than pi.
C23_ShortestTurn ==
  calc.stage = "turned" =>
    /\ calc.delta \in -AngPi..AngPi
    /\ (calc.delta - (calc.target - calc.world)) % (2 * AngPi) = 0
    /\ calc.changeMilli = calc.delta * 27
    /\ Abs(calc.changeMilli) <= AngPi * 1000

\* a difference of more than a full turn has been brought back into [-pi, pi]
C23_Witness ==
  /\ calc.stage = "turned"
  /\ calc.target - calc.world > 2 * AngPi + AngPi
  /\ calc.delta # calc.target - calc.world
  /\ calc.delta < 0

\* C24: a tick recomputes currentMarkerAngle and the agent's rotation from the
\* curve tangent only when progress < 0.995; with progress >= 0.995 it leaves
\* both as they were, and in both cases it puts the agent at the point of the
\* curve at progress.
C24_HeadingFrozenNearEnd ==
  [][(lastOp' = "updateAnimator" /\ inited /\ UpdateAnimator)
       => /\ shopper'.pos = GetPointAt(pathCurve, progress)
          /\ IF progress * 1000 < 995 * ProgressOne
             THEN /\ currentMarkerAngle' = TangentAngle(pathCurve, progress)
                  /\ shopper'.rot = TangentAngle(pathCurve, progress)
             ELSE /\ currentMarkerAngle' = currentMarkerAngle
                  /\ shopper'.rot = shopper.rot]_vars

\* a tick at the end of the path has moved the agent there and kept a
\* heading that is not the tangent's
C24_Witness ==
  /\ lastOp = "updateAnimator"
  /\ inited
  /\ progress = ProgressOne
  /\ shopper.pos = GetPointAt(pathCurve, ProgressOne)
  /\ currentMarkerAngle # TangentAngle(pathCurve, ProgressOne)

\* the agent's world position on the ground plane
MarkerGround == <<WorldPos(shopper.pos, worldRotation)[1], 0, WorldPos(shopper.pos, worldRotation)[2]>>

\* C25: a tick with followingMarker true moves every component of
\* cameraTarget toward the agent's ground-plane world position by 0.05 of
\* the difference and puts the camera at cameraTarget + cameraOffset; a tick
\* with followingMarker false leaves cameraTarget and the camera position
\* unchanged.
C25_FollowCamera ==
  [][(lastOp' = "updateAnimator" /\ inited /\ UpdateAnimator)
       => IF followingMarker
          THEN /\ \A i \in 1..3 :
                    /\ cameraTarget'[i] = cameraTarget[i] + MulDiv(MarkerGround'[i] - cameraTarget[i], 5, 100)
                    /\ Abs(MarkerGround'[i] - cameraTarget'[i]) <= Abs(MarkerGround'[i] - cameraTarget[i])
                    /\ camera'.pos[i] = cameraTarget'[i] + cameraOffset'[i]
          ELSE /\ cameraTarget' = cameraTarget
               /\ camera'.pos = camera.pos]_vars

\* a following tick has moved cameraTarget part of the way to the agent: the
\* distance left is still large enough for 0.05 of it to be a whole step
C25_Witness ==
  /\ lastOp = "updateAnimator"
  /\ inited /\ followingMarker
  /\ cameraTarget # <<0, 0, 0>>
  /\ \E i \in 1..3 : Abs(MarkerGround[i] - cameraTarget[i]) * 5 >= 100
  /\ camera.pos = <<cameraTarget[1] + cameraOffset[1], cameraTarget[2] + cameraOffset[2],
                    cameraTarget[3] + cameraOffset[3]>>

\* index in the point list of the cut-in point of the interior waypoint i
CutIn(i) == 2 + (i - 2) * (ArcPoints + 1)
\* index of its cut-out point
CutOut(i) == CutIn(i) + ArcPoints

\* distance along a segment from the waypoint a to a pushed point q on its line
AlongSegment(a, q) ==
  IF Pushed(a)[2] = q[2] THEN Abs(q[1] - Pushed(a)[1]) ELSE Abs(q[2] - Pushed(a)[2])

\* C26: the radius used at every interior waypoint is the smaller of the
\* requested radius and 0.4 of the shorter adjacent segment; for two
\* consecutive interior waypoints the radii add up to less than the segment
\* they share, and on that segment the cut-out point of the first comes
\* before the cut-in point of the second.
C26_CornersNeverOverlap ==
  calc.stage = "rounded" =>
    LET wps == calc.waypoints
    IN /\ \A i \in 2..(Len(wps) - 1) :
            calc.radii[i] * 10 =
              Min2(calc.cornerRadius * 10,
                   4 * Min2(SegmentLength(wps[i - 1], wps[i]), SegmentLength(wps[i], wps[i + 1])))
       /\ \A i \in 2..(Len(wps) - 2) :
            /\ calc.radii[i] + calc.radii[i + 1] < SegmentLength(wps[i], wps[i + 1])
            /\ AlongSegment(wps[i], calc.points[CutOut(i)])
                 < AlongSegment(wps[i], calc.points[CutIn(i + 1)])

\* two interior waypoints share a segment too short for the requested
\* radius: both radii are cut down to 0.4 of it
C26_Witness ==
  /\ calc.stage = "rounded"
  /\ Len(calc.waypoints) = 4
  /\ SegmentLength(calc.waypoints[2], calc.waypoints[3]) = 5
  /\ calc.cornerRadius = 30
  /\ calc.radii[2] = 2 /\ calc.radii[3] = 2

\* C27: the point list starts at the first waypoint and ends at the last,
\* with the cut-in point, 15 Bezier samples and the cut-out point of every
\* interior waypoint in path order in between, so progress 0 is the first
\* waypoint and progress 1 the last.
C27_EndpointsExact ==
  calc.stage = "rounded" =>
    LET wps == calc.waypoints
        n == Len(wps)
    IN /\ Len(calc.points) = 2 + 17 * (n - 2)
       /\ calc.points[1] = Pushed(wps[1])
       /\ calc.points[Len(calc.points)] = Pushed(wps[n])
       /\ calc.start = Pushed(wps[1])
       /\ calc.end = Pushed(wps[n])
       /\ \A i \in 2..(n - 1) :
            /\ calc.points[2 + 17 * (i - 2)] = Pushed(BeforeCorner(wps, calc.cornerRadius, i))
            /\ calc.points[2 + 17 * (i - 2) + 16] = Pushed(AfterCorner(wps, calc.cornerRadius, i))
            /\ \A j \in 1..15 :
                 calc.points[2 + 17 * (i - 2) + j]
                   = BezierPoint(BeforeCorner(wps, calc.cornerRadius, i), wps[i],
                                 AfterCorner(wps, calc.cornerRadius, i), j)

\* a path with two rounded corners whose ends are two different waypoints
C27_Witness ==
  /\ calc.stage = "rounded"
  /\ Len(calc.waypoints) = 4
  /\ Len(calc.points) = 36
  /\ calc.start = <<0, 0>>
  /\ calc.end = Pushed(calc.waypoints[4])
  /\ calc.end # calc.start
  /\ calc.end # calc.points[35]

\* a tick has just run with pin p Visible and within 7 units of the agent
NearAtTick(p) ==
  /\ lastOp = "updateAnimator" /\ inited
  /\ PinState(p) = "Visible"
  /\ Dist2(p, shopper.pos) <= (7 * Scale) * (7 * Scale)

\* C28: after a tick at which a pin is Visible, not Done and within 7 units
\* of the agent, the pin eventually becomes Done unless a reset intervenes,
\* whatever else happens in between; a pending debounce timer goes away
\* only by firing, which marks its pin Done, or by resetJourney.
C28_NearPinBecomesDone ==
  /\ NearAtTick(1) ~> (isDone[1] \/ lastOp \in ResetOps)
  /\ NearAtTick(2) ~> (isDone[2] \/ lastOp \in ResetOps)
  /\ NearAtTick(3) ~> (isDone[3] \/ lastOp \in ResetOps)
  /\ [][\A p \in Pins :
          (pendingTimers'[DoneKey(p)] < pendingTimers[DoneKey(p)])
            => (isDone'[p] \/ ResetJourney)]_vars

C28_NearPin1 == NearAtTick(1)
C28_NearPin2 == NearAtTick(2)
C28_NearPin3 == NearAtTick(3)

\* a pin has become Done by its timer after the agent has left its threshold
C28_Witness ==
  /\ lastOp = "pinDoneTimer"
  /\ \E p \in Pins : isDone[p] /\ Dist2(p, shopper.pos) > (7 * Scale) * (7 * Scale)

\* C29: an intro switches compassMode to Follow in the step that starts its
\* move phase, which leaves followingMarker as it is; the step that turns
\* followingMarker true is the completion of an intro in its move phase, and
\* the state it starts from has compassMode = false and followingMarker =
\* false.
C29_FollowModeBeforeFollowing ==
  [][/\ \A i \in 1..Len(intros) :
          (intros[i].phase = "hold" /\ IntroMoveStart(i))
            => (~compassMode' /\ followingMarker' = followingMarker)
     /\ (followingMarker' /\ ~followingMarker)
          => /\ ~compassMode
             /\ \E i \in 1..Len(intros) : intros[i].phase = "move" /\ IntroComplete(i)]_vars

\* the move phase of an intro is under way: Follow mode, not yet following
C29_WitnessMoving ==
  /\ ~compassMode /\ ~followingMarker
  /\ \E i \in 1..Len(intros) : intros[i].phase = "move"

\* an intro has completed: following, in Follow mode, its callback's timer set
C29_Witness ==
  /\ followingMarker /\ ~compassMode
  /\ intros = <<>>
  /\ startTimers = 1
  /\ timeline = "null"

\* C30: at most one path-draw animation is alive, and it is the one
\* animatorState refers to; while the path is hidden uVisible and
\* uDrawProgress are 0 and no draw animation is alive; setPathVisible(false)
\* leaves exactly that, setPathVisible(true) leaves uVisible = 1 and one
\* fresh draw animation, and uDrawProgress then reaches 1 unless the path is
\* hidden again.
C30_OnePathDraw ==
  /\ [](/\ Len(draws) <= 1
        /\ (pathDrawTimeline = "live") = (Len(draws) = 1)
        /\ (~pathVisible => (uniforms.uVisible = 0 /\ uniforms.uDrawProgress = 0
                               /\ draws = <<>>)))
  /\ [][/\ (SetPathVisible(FALSE)
              => (uniforms'.uVisible = 0 /\ uniforms'.uDrawProgress = 0 /\ draws' = <<>>))
         /\ (SetPathVisible(TRUE)
              => (uniforms'.uVisible = 1 /\ uniforms'.uDrawProgress = 0
                    /\ draws' = <<[t |-> 0]>>))]_vars
  /\ (pathVisible /\ uniforms.uVisible = 1)
       ~> (uniforms.uDrawProgress = ProgressOne \/ ~pathVisible)

\* the draw animation of a shown path has run to its end
C30_Witness ==
  /\ pathVisible
  /\ uniforms.uVisible = 1 /\ uniforms.uDrawProgress = ProgressOne
  /\ draws = <<>> /\ pathDrawTimeline = "null"

\* a path hidden again after it was shown
C30_WitnessHidden ==
  /\ inited /\ ~pathVisible /\ calls = 2
  /\ uniforms.uVisible = 0 /\ uniforms.uDrawProgress = 0
  /\ pathDrawTimeline = "null"

\* C31: the ribbon of 600 samples has 2 * 601 vertices; both vertices of
\* sample i carry the progress i / 600, the values do not decrease, the first
\* is 0 and the last 1; every triangle index is within 0 .. 2 * 601 - 1.
C31_RibbonAttributes ==
  calc.stage = "ribbon" =>
    LET count == 2 * (600 + 1)
    IN /\ Len(calc.position) = count
       /\ Len(calc.aProgress) = count
       /\ \A i \in 0..600 :
            /\ calc.aProgress[2 * i + 1] = i
            /\ calc.aProgress[2 * i + 2] = i
            /\ calc.position[2 * i + 1].sample = i
            /\ calc.position[2 * i + 2].sample = i
       /\ \A k \in 2..count : calc.aProgress[k] >= calc.aProgress[k - 1]
       /\ calc.aProgress[1] = 0
       /\ calc.aProgress[count] = NumSamples
       /\ \A k \in 1..Len(calc.index) : calc.index[k] \in 0..(count - 1)

\* the ribbon of a curve with a corner: 600 quads, the last one ending at
\* the last vertex
C31_Witness ==
  /\ calc.stage = "ribbon"
  /\ Len(calc.waypoints) = 3
  /\ Len(calc.index) = 3600
  /\ calc.index[3599] = 1201
  /\ calc.position[1202].side = "right"

\* C32: Transitioning and Following exclude each other: no intro timeline is
\* running while followingMarker is true.
C32_TransitioningExcludesFollowing == followingMarker => intros = <<>>

\* C32, the part the code keeps: the completion of an intro is what turns
\* followingMarker on, so an intro that runs alone never writes the camera
\* while the Following update does.
C32_AloneIntroExcludesFollowing == (followingMarker /\ calls <= 1) => intros = <<>>

\* an intro transition started by startFullAnimation has not completed yet
IntroOfSequenceRunning == \E i \in 1..Len(intros) : intros[i].cb

\* C33: from the call of startFullAnimation until its intro has completed
\* progress stays 0 and no journey timeline is alive to drive it, also when
\* the call was made while an earlier journey timeline was running.
C33_JourneyOnlyAfterIntro ==
  IntroOfSequenceRunning => (progress = 0 /\ journeys = <<>>)

\* C33, the part the code keeps: in the first full sequence the journey
\* starts only after the intro has completed.
C33_FirstSequenceOrdered ==
  (calls <= 1 /\ IntroOfSequenceRunning) => (progress = 0 /\ journeys = <<>>)

\* C34: isPlaying is true only while the journey timeline animatorState
\* holds exists and is running (not paused, completed or killed), also after
\* resumeJourney is called following a reset or a completion.
C34_IsPlayingMeansRunning == isPlaying => JourneyRunning

\* C34, the part the code keeps: playJourney, pauseJourney, resetJourney and
\* the completion of the timeline leave isPlaying equal to "a timeline is
\* running".
C34_FlagSetRight ==
  [][((inited /\ PlayJourney) \/ PauseJourney \/ ResetJourney
        \/ (\E i \in 1..Len(journeys) : JourneyStep(i) /\ journeys[i].time + 1 = JEnd))
       => (isPlaying' = JourneyRunning')]_vars

\* the state JourneyStarted describes is one the program reaches: initAnimator
\* and then playJourney, one command issued
JourneyStartedReached == JourneyStarted /\ calls = 1

C35_WitnessResumed ==
  /\ calls = 2
  /\ JourneyRunning
  /\ isPlaying
  /\ journeys[1].time > 1
  /\ progress = JourneyValue(journeys[1].curve, journeys[1].time)

\* C36: the total duration of every journey timeline that is alive is the
\* length of the active curve divided by the base speed 2.5 (in
\* milliseconds and 1/Scale units), also after a switchPath.
C36_DurationFitsActiveCurve ==
  \A i \in 1..Len(journeys) :
    TotalDuration(journeys[i].curve) * 25 * Scale = GetLength(pathCurve) * 1000 * 10

\* C36, the part the code keeps: the timeline playJourney builds has the
\* duration of the curve that is active at the call.
C36_DurationAtStart ==
  [][(inited /\ PlayJourney)
       => (TotalDuration(journeys'[Len(journeys')].curve) * 25 * Scale
             = GetLength(pathCurve) * 1000 * 10)]_vars

\* C37: a Hidden pin becomes Visible only by its own delay timer or by the
\* completion of the pin whose label is its revealAfter; the completion of
\* any other pin, a pin without a label included, leaves a Hidden pin that
\* has no revealAfter Hidden.
C37_RevealOnlyByOwnTrigger ==
  [][\A q \in Pins : (isHidden[q] /\ ~isHidden'[q]) =>
       \/ PinDelayTimer(q)
       \/ \E p \in Pins : /\ PinDoneTimer(p)
                           /\ Pin(q).revealAfter # NoLabel
                           /\ Pin(q).revealAfter = Pin(p).label]_vars

\* C37, the part the code keeps: the completion of a pin reveals exactly the
\* Hidden pins whose revealAfter is strictly equal to its label.
C37_RevealByEqualLabel ==
  [][\A q \in Pins : (isHidden[q] /\ ~isHidden'[q]) =>
       \/ PinDelayTimer(q)
       \/ \E p \in Pins : PinDoneTimer(p) /\ Pin(q).revealAfter = Pin(p).label]_vars

\* C38: once the animator is initialised, every pin that is Hidden and has a
\* revealAfterDelay has a delay timer pending (so it becomes Visible), also
\* after resetJourney.
C38_HiddenDelayPinHasTimer ==
  inited =>
    \A p \in Pins :
      (isHidden[p] /\ Pin(p).revealAfterDelay > 0) => pendingTimers[DelayKey(p)] > 0

\* C38, the part the code keeps: a delay-reveal pin that is Hidden while the
\* handle of its timer is in pinDoneTimers has that timer pending.
C38_TimerPendingWhileHandleKept ==
  inited =>
    \A p \in Pins :
      (isHidden[p] /\ Pin(p).revealAfterDelay > 0 /\ pinDoneTimers[DelayKey(p)] # "none")
        => pendingTimers[DelayKey(p)] > 0

\* C39: no pin is both Hidden and Done, whatever the interleaving of ticks,
\* timers, reveal chains and resets.
C39_NeverHiddenAndDone == \A p \in Pins : isDone[p] => ~isHidden[p]

\* a pin that was created Hidden is Done while another pin is still Hidden
\* and a debounce timer is pending
C39_Witness ==
  /\ \E q \in Pins : isDone[q] /\ Pin(q).hidden
  /\ \E r \in Pins : isHidden[r]
  /\ \E p \in Pins : pendingTimers[DoneKey(p)] > 0

\* a reset has hidden a pin that is within reach of the agent's last position
C39_WitnessReset ==
  /\ lastOp \in ResetOps /\ inited
  /\ calls > 0
  /\ \E p \in Pins : isHidden[p] /\ ~Pin(p).hidden

\* C40: whenever followingMarker is true cameraOffset is the isometric
\* offset (0, 37.5, 30), so a Following tick never places the camera with
\* the zenith offset (0, 120, 15).
C40_FollowingUsesIsoOffset ==
  /\ followingMarker => cameraOffset = <<0, (375 * Scale) \div 10, 30 * Scale>>
  \* a tick leaves followingMarker as it is: this is the state a Following
  \* tick has produced
  /\ (lastOp = "updateAnimator" /\ followingMarker)
       => /\ cameraOffset # <<0, 120 * Scale, 15 * Scale>>
          /\ camera.pos = <<cameraTarget[1], (375 * Scale) \div 10, cameraTarget[3] + 30 * Scale>>

\* a Following tick has placed the camera, in a run of two commands
C40_Witness ==
  /\ lastOp = "updateAnimator"
  /\ followingMarker
  /\ calls = 2
  /\ cameraOffset = IsoOffset
  /\ camera.pos = <<cameraTarget[1], IsoOffsetY, cameraTarget[3] + IsoOffsetZ>>

====
